---------------------------- MODULE Spec2Model ----------------------------
(***************************************************************************)
(* Model of mlflow/PySparkPredict.py: a batch-inference script that sets   *)
(* three artifact-store environment variables, parses its command line,    *)
(* creates a Spark session, reads a parquet dataset, loads a model from    *)
(* MLflow, applies it, projects (driver_id, prediction) and writes the     *)
(* result as parquet.                                                      *)
(*                                                                         *)
(* Storage (fs) and the model registry outlive a process; everything else  *)
(* belongs to one process invocation ("run").  A table is a schema (a      *)
(* sequence of column names) and a bag of rows; a row is a function from   *)
(* column names to values.  Feature values are in tenths (2 is 0.2).       *)
(***************************************************************************)
EXTENDS Integers, Sequences, FiniteSets, Bags, TLC

(* ------------------------------ bounds --------------------------------- *)
MaxRows == 2
MaxRuns == 2

(* --------------------------- vocabulary -------------------------------- *)
Range(s) == {s[i] : i \in 1..Len(s)}

EnvVars == {"MLFLOW_S3_ENDPOINT_URL", "AWS_ACCESS_KEY_ID", "AWS_SECRET_ACCESS_KEY"}

Unset == "<unset>"

\* what the process may inherit from its parent for each variable
InheritedValues == {Unset, "inherited"}

ModuleEnv ==
    [MLFLOW_S3_ENDPOINT_URL |-> "https://url.net",
     AWS_ACCESS_KEY_ID      |-> "key-id",
     AWS_SECRET_ACCESS_KEY  |-> "access-key"]

DefaultData == "data.parquet"

DefaultResult == "result"

DefaultModelUri == "s3://kc-mlflow/341/49349c2583f94de18093e90d3d6ea578/artifacts/e-sidorova"

\* values the command line can give to --data and --result
Paths == {DefaultData, DefaultResult}

\* values the command line can give to --model_uri
ModelUris == {DefaultModelUri, "s3://classifier", "s3://scorer", "s3://missing"}

\* values of the process's locals before they are assigned
NoTable == [cols |-> <<>>, rows |-> EmptyBag]

NoModel == [needs |-> {}, adds |-> <<>>, predictionCol |-> "", threshold |-> 0]

NoArgs == [data |-> "", result |-> "", model_uri |-> ""]

NoPrev == [args |-> NoArgs, outcome |-> "none"]

NoError == "<no error>"

NoStage == "<no stage>"

\* the pipeline stages of process(), in program order
StageOrder == <<"read", "load_model", "transform", "write">>

ProjectedColumns == <<"driver_id", "prediction">>

(* ------------------------------ tables --------------------------------- *)
ColumnValues(c) ==
    CASE c = "driver_id" -> {1, 2}
      [] c = "f1"        -> {2, 9}
      [] OTHER           -> {0}

Schemas ==
    { <<"driver_id", "f1">>,
      <<"driver_id", "f1", "f2">>,
      <<"f1">>,
      <<"driver_id">>,
      <<"driver_id", "f1", "prediction">> }

RowsOf(schema) ==
    {r \in [Range(schema) -> {0, 1, 2, 9}] : \A c \in Range(schema) : r[c] \in ColumnValues(c)}

RECURSIVE SeqToBag(_)
SeqToBag(q) ==
    IF q = <<>> THEN EmptyBag ELSE SetToBag({Head(q)}) (+) SeqToBag(Tail(q))

BagsOf(S) == {SeqToBag(q) : q \in UNION {[1..k -> S] : k \in 0..MaxRows}}

Datasets == UNION {{[cols |-> s, rows |-> b] : b \in BagsOf(RowsOf(s))} : s \in Schemas}

\* a result left at the output path by some earlier job
OldResult ==
    [cols |-> ProjectedColumns, rows |-> SetToBag({[driver_id |-> 2, prediction |-> 0]})]

(* ------------------------------ models --------------------------------- *)
\* A model reads the columns `needs`, appends the columns `adds` and maps
\* every row to one row; its prediction, f1 > threshold, goes to the column
\* `predictionCol`, and the feature value to any other column it adds.
ThresholdModel ==
    [needs |-> {"f1"}, adds |-> <<"prediction">>,
     predictionCol |-> "prediction", threshold |-> 5]

ClassifierModel ==
    [needs |-> {"f1"}, adds |-> <<"rawPrediction", "prediction">>,
     predictionCol |-> "prediction", threshold |-> 5]

\* a model configured to write its prediction to a column named "score"
ScorerModel ==
    [needs |-> {"f1"}, adds |-> <<"score">>,
     predictionCol |-> "score", threshold |-> 5]

\* the registry resolves the URIs in its domain; "s3://missing" is not one
Registry0 ==
    [u \in ModelUris \ {"s3://missing"} |->
        CASE u = DefaultModelUri   -> ThresholdModel
          [] u = "s3://classifier" -> ClassifierModel
          [] OTHER                 -> ScorerModel]

\* mutant: the comparison inverted
PredictInverted(m, row) == IF row["f1"] < m.threshold THEN 1 ELSE 0

Predict(m, row) == IF row["f1"] > m.threshold THEN 1 ELSE 0

OutputValue(m, c, row) == IF c = m.predictionCol THEN Predict(m, row) ELSE row["f1"]

\* the row the model produces for one input row
ApplyRow(m, row) ==
    [c \in DOMAIN row \cup Range(m.adds) |->
        IF c \in DOMAIN row THEN row[c] ELSE OutputValue(m, c, row)]

\* model.transform raises when an input column is missing or an output
\* column is already present
Accepts(m, df) ==
    /\ m.needs \subseteq Range(df.cols)
    /\ Range(m.adds) \cap Range(df.cols) = {}

ModelTransform(m, df) ==
    [cols |-> df.cols \o m.adds,
     rows |-> BagOfAll(LAMBDA r : ApplyRow(m, r), df.rows)]

\* DataFrame.select raises when a named column is not in the table
Selectable(df, names) == Range(names) \subseteq Range(df.cols)

\* mutant: select(...).distinct()
SelectDistinct(df, names) ==
    [cols |-> names,
     rows |-> SetToBag({[c \in Range(names) |-> r[c]] : r \in BagToSet(df.rows)})]

\* mutant: the projection left out
SelectNothing(df, names) == df

Select(df, names) ==
    [cols |-> names,
     rows |-> BagOfAll(LAMBDA r : [c \in Range(names) |-> r[c]], df.rows)]

(* ------------------------------- state --------------------------------- *)
VARIABLES
    pc,          \* position of the running process, or "idle"/"done"/"failed"
    env,         \* os.environ restricted to EnvVars
    args,        \* parsed command line: [data, result, model_uri]
    spark,       \* TRUE once the SparkSession exists
    data_df,     \* process(): data_df
    model,       \* process(): model
    predictions, \* process(): predictions
    fs,          \* storage: the existing paths and the table at each
    registry,    \* model registry: the resolvable URIs and the model at each
    error,       \* the exception that ended the run, or NoError
    failedAt,    \* the stage that raised it, or NoStage
    trace,       \* history: stages entered by the current run, in order
    overrode,    \* history: the current run replaced an inherited env value
    fs0,         \* history: storage when the current run was launched
    registry0,   \* history: registry when the current run was launched
    prev,        \* history: [args, outcome] of the previous run, or NoPrev
    runs         \* number of runs launched

vars == <<pc, env, args, spark, data_df, model, predictions, fs, registry,
          error, failedAt, trace, overrode, fs0, registry0, prev, runs>>

Terminal == pc \in {"done", "failed"}

Init ==
    /\ pc = "idle"
    /\ env = [v \in EnvVars |-> Unset]
    /\ args = NoArgs
    /\ spark = FALSE
    /\ data_df = NoTable
    /\ model = NoModel
    /\ predictions = NoTable
    /\ \E present \in SUBSET Paths :
          /\ fs \in [present -> Datasets \cup {OldResult}]
          /\ DefaultData \in present => fs[DefaultData] \in Datasets
          /\ DefaultResult \in present => fs[DefaultResult] = OldResult
    /\ registry = Registry0
    /\ error = NoError
    /\ failedAt = NoStage
    /\ trace = <<>>
    /\ overrode = FALSE
    /\ fs0 = fs
    /\ registry0 = registry
    /\ prev = NoPrev
    /\ runs = 0

(* ------------------------------ actions -------------------------------- *)
\* The interpreter starts the script: a fresh process with an inherited
\* environment and nothing else.
Launch ==
    /\ pc = "idle" \/ Terminal
    /\ runs < MaxRuns
    /\ runs' = runs + 1
    /\ prev' = IF Terminal THEN [args |-> args, outcome |-> pc] ELSE prev
    /\ env' \in [EnvVars -> InheritedValues]
    /\ pc' = "line8"
    /\ args' = NoArgs
    /\ spark' = FALSE
    /\ data_df' = NoTable
    /\ model' = NoModel
    /\ predictions' = NoTable
    /\ error' = NoError
    /\ failedAt' = NoStage
    /\ trace' = <<>>
    /\ overrode' = FALSE
    /\ fs0' = fs
    /\ registry0' = registry
    /\ UNCHANGED <<fs, registry>>

\* mutant: the exception is caught and the script exits normally
FailCaught(stage, exc) ==
    /\ pc' = "done"
    /\ error' = exc
    /\ failedAt' = stage

\* An exception raised in `stage` propagates out of process() and main().
Fail(stage, exc) ==
    /\ pc' = "failed"
    /\ error' = exc
    /\ failedAt' = stage

Enter(stage) == trace' = Append(trace, stage)

\* mutant: os.environ.setdefault(var, value)
SetEnvDefault(at, var, next) ==
    /\ pc = at
    /\ env' = [env EXCEPT ![var] = IF env[var] = Unset THEN ModuleEnv[var] ELSE env[var]]
    /\ overrode' = overrode
    /\ pc' = next
    /\ UNCHANGED <<args, spark, data_df, model, predictions, fs, registry, error,
                   failedAt, trace, fs0, registry0, prev, runs>>

\* os.environ[var] = value
SetEnv(at, var, next) ==
    /\ pc = at
    /\ env' = [env EXCEPT ![var] = ModuleEnv[var]]
    /\ overrode' = (overrode \/ env[var] # Unset)
    /\ pc' = next
    /\ UNCHANGED <<args, spark, data_df, model, predictions, fs, registry, error,
                   failedAt, trace, fs0, registry0, prev, runs>>

SetEndpointUrl == SetEnv("line8", "MLFLOW_S3_ENDPOINT_URL", "line9")

SetAccessKeyId == SetEnv("line9", "AWS_ACCESS_KEY_ID", "line10")

SetSecretAccessKey == SetEnv("line10", "AWS_SECRET_ACCESS_KEY", "parse_args")

ParseArgs ==
    /\ pc = "parse_args"
    /\ \E d \in Paths, r \in Paths, u \in ModelUris :
          args' = [data |-> d, result |-> r, model_uri |-> u]
    /\ pc' = "session"
    /\ UNCHANGED <<env, spark, data_df, model, predictions, fs, registry, error,
                   failedAt, trace, overrode, fs0, registry0, prev, runs>>

SparkSessionCreate ==
    /\ pc = "session"
    /\ spark' = TRUE
    /\ pc' = "read"
    /\ UNCHANGED <<env, args, data_df, model, predictions, fs, registry, error,
                   failedAt, trace, overrode, fs0, registry0, prev, runs>>

\* mutant: the read is retried when the path is missing
ReadParquetRetry ==
    /\ pc = "read"
    /\ Enter("read")
    /\ IF args.data \notin DOMAIN fs
         THEN /\ Len(trace) < Len(StageOrder)
              /\ UNCHANGED <<pc, data_df>>
         ELSE /\ data_df' = fs[args.data]
              /\ pc' = "load_model"
    /\ UNCHANGED <<env, args, spark, model, predictions, fs, registry, error,
                   failedAt, overrode, fs0, registry0, prev, runs>>

\* mutant: the output path is checked before anything is read
ReadParquetCheckOutput ==
    /\ pc = "read"
    /\ Enter("read")
    /\ IF args.result \in DOMAIN fs
         THEN /\ Fail("read", "PathExists")
              /\ UNCHANGED data_df
         ELSE IF args.data \notin DOMAIN fs
         THEN /\ Fail("read", "PathNotFound")
              /\ UNCHANGED data_df
         ELSE /\ data_df' = fs[args.data]
              /\ pc' = "load_model"
              /\ UNCHANGED <<error, failedAt>>
    /\ UNCHANGED <<env, args, spark, model, predictions, fs, registry,
                   overrode, fs0, registry0, prev, runs>>

\* data_df = spark.read.parquet(data_path)
ReadParquet ==
    /\ pc = "read"
    /\ Enter("read")
    /\ IF args.data \notin DOMAIN fs
         THEN /\ Fail("read", "PathNotFound")
              /\ UNCHANGED data_df
         ELSE /\ data_df' = fs[args.data]
              /\ pc' = "load_model"
              /\ UNCHANGED <<error, failedAt>>
    /\ UNCHANGED <<env, args, spark, model, predictions, fs, registry,
                   overrode, fs0, registry0, prev, runs>>

\* mutant: an unresolvable URI falls back to the default model
LoadModelFallback ==
    /\ pc = "load_model"
    /\ Enter("load_model")
    /\ model' = IF args.model_uri \in DOMAIN registry
                  THEN registry[args.model_uri]
                  ELSE registry[DefaultModelUri]
    /\ pc' = "transform"
    /\ UNCHANGED <<env, args, spark, data_df, predictions, fs, registry, error,
                   failedAt, overrode, fs0, registry0, prev, runs>>

\* model = mlflow.spark.load_model(model_uri)
LoadModel ==
    /\ pc = "load_model"
    /\ Enter("load_model")
    /\ IF args.model_uri \notin DOMAIN registry
         THEN /\ Fail("load_model", "ModelNotFound")
              /\ UNCHANGED model
         ELSE /\ model' = registry[args.model_uri]
              /\ pc' = "transform"
              /\ UNCHANGED <<error, failedAt>>
    /\ UNCHANGED <<env, args, spark, data_df, predictions, fs, registry,
                   overrode, fs0, registry0, prev, runs>>

\* predictions = model.transform(data_df).select("driver_id", "prediction")
Transform ==
    /\ pc = "transform"
    /\ Enter("transform")
    /\ IF Accepts(model, data_df) /\ Selectable(ModelTransform(model, data_df), ProjectedColumns)
         THEN /\ predictions' = Select(ModelTransform(model, data_df), ProjectedColumns)
              /\ pc' = "write"
              /\ UNCHANGED <<error, failedAt>>
         ELSE /\ Fail("transform", "SchemaMismatch")
              /\ UNCHANGED predictions
    /\ UNCHANGED <<env, args, spark, data_df, model, fs, registry,
                   overrode, fs0, registry0, prev, runs>>

StoreAt(path, table) ==
    [p \in DOMAIN fs \cup {path} |-> IF p = path THEN table ELSE fs[p]]

\* mutant: predictions.write.mode("overwrite").parquet(result)
WriteParquetOverwrite ==
    /\ pc = "write"
    /\ Enter("write")
    /\ fs' = StoreAt(args.result, predictions)
    /\ pc' = "done"
    /\ UNCHANGED <<env, args, spark, data_df, model, predictions, registry, error,
                   failedAt, overrode, fs0, registry0, prev, runs>>

\* mutant: predictions.write.mode("ignore").parquet(result)
WriteParquetIgnore ==
    /\ pc = "write"
    /\ Enter("write")
    /\ fs' = IF args.result \in DOMAIN fs THEN fs ELSE StoreAt(args.result, predictions)
    /\ pc' = "done"
    /\ UNCHANGED <<env, args, spark, data_df, model, predictions, registry, error,
                   failedAt, overrode, fs0, registry0, prev, runs>>

\* predictions.write.parquet(result): the default save mode raises when the
\* path exists
WriteParquet ==
    /\ pc = "write"
    /\ Enter("write")
    /\ IF args.result \in DOMAIN fs
         THEN /\ Fail("write", "PathExists")
              /\ UNCHANGED fs
         ELSE /\ fs' = StoreAt(args.result, predictions)
              /\ pc' = "done"
              /\ UNCHANGED <<error, failedAt>>
    /\ UNCHANGED <<env, args, spark, data_df, model, predictions, registry,
                   overrode, fs0, registry0, prev, runs>>

Next ==
    \/ Launch
    \/ SetEndpointUrl
    \/ SetAccessKeyId
    \/ SetSecretAccessKey
    \/ ParseArgs
    \/ SparkSessionCreate
    \/ ReadParquet
    \/ LoadModel
    \/ Transform
    \/ WriteParquet

Spec == Init /\ [][Next]_vars

(* ------------------------- properties of a run ------------------------- *)
IsPrefix(s, t) == Len(s) <= Len(t) /\ \A i \in 1..Len(s) : s[i] = t[i]

Started == args # NoArgs

\* preconditions of the current run, read off the state it was launched in
Readable == Started /\ args.data \in DOMAIN fs0

Resolvable == Started /\ args.model_uri \in DOMAIN registry0

OutputFresh == Started /\ args.result \notin DOMAIN fs0

InputTable == fs0[args.data]

RunModel == registry0[args.model_uri]

\* the model's input columns are in the dataset, its output columns are not,
\* and the transformed table has the two projected columns
SchemaOK ==
    /\ Readable
    /\ Resolvable
    /\ RunModel.needs \subseteq Range(InputTable.cols)
    /\ Range(RunModel.adds) \cap Range(InputTable.cols) = {}
    /\ Range(ProjectedColumns) \subseteq Range(InputTable.cols) \cup Range(RunModel.adds)

OutputWritten == Started /\ args.result \in DOMAIN fs

RECURSIVE CopiesOver(_, _)
CopiesOver(S, B) ==
    IF S = {} THEN 0
    ELSE LET r == CHOOSE x \in S : TRUE
         IN  CopiesIn(r, B) + CopiesOver(S \ {r}, B)

ScenarioInput ==
    [cols |-> <<"driver_id", "f1">>,
     rows |-> SetToBag({[driver_id |-> 1, f1 |-> 2], [driver_id |-> 2, f1 |-> 9]})]

ScenarioOutput ==
    SetToBag({[driver_id |-> 1, prediction |-> 0], [driver_id |-> 2, prediction |-> 1]})

(* C1, as stated: every run with a readable dataset of N rows, a           *)
(* resolvable model and a non-existing output path succeeds and writes     *)
(* exactly N rows.                                                         *)
C1_AsStated ==
    (Terminal /\ Readable /\ Resolvable /\ OutputFresh) =>
        /\ pc = "done"
        /\ OutputWritten
        /\ BagCardinality(fs[args.result].rows) = BagCardinality(InputTable.rows)

(* C1, amended: every run with a readable dataset of N rows (N >= 0), a    *)
(* resolvable model whose transform accepts the dataset's schema and       *)
(* yields the driver_id and prediction columns, and a non-existing output  *)
(* path succeeds and writes exactly N rows; N = 0 is a success with an     *)
(* empty output.                                                           *)
C1_RowCount ==
    (Terminal /\ Readable /\ Resolvable /\ OutputFresh /\ SchemaOK) =>
        /\ pc = "done"
        /\ error = NoError
        /\ OutputWritten
        /\ BagCardinality(fs[args.result].rows) = BagCardinality(InputTable.rows)

C1_Witness ==
    /\ pc = "done"
    /\ OutputFresh
    /\ InputTable.rows = EmptyBag
    /\ fs[args.result].rows = EmptyBag

(* C2: whenever a run succeeds, the table at the output path has exactly   *)
(* the two columns driver_id and prediction, whatever columns the input    *)
(* has and the model adds.                                                 *)
C2_TwoColumns ==
    pc = "done" =>
        /\ OutputWritten
        /\ fs[args.result].cols = <<"driver_id", "prediction">>
        /\ \A r \in BagToSet(fs[args.result].rows) : DOMAIN r = {"driver_id", "prediction"}

C2_Witness ==
    /\ pc = "done"
    /\ Len(InputTable.cols) = 3
    /\ Len(RunModel.adds) = 2
    /\ fs[args.result].rows # EmptyBag

(* C3, as stated: in every successful run the output holds, for every     *)
(* input row, one row pairing that row's driver_id with the prediction the *)
(* loaded model computes for that row, and nothing else.                   *)
C3_AsStated ==
    pc = "done" =>
        /\ \A o \in BagToSet(fs[args.result].rows) :
              \E r \in BagToSet(InputTable.rows) :
                  /\ o["driver_id"] = r["driver_id"]
                  /\ o["prediction"] = (IF r["f1"] > RunModel.threshold THEN 1 ELSE 0)
        /\ \A id \in ColumnValues("driver_id"), p \in {0, 1} :
              CopiesIn([driver_id |-> id, prediction |-> p], fs[args.result].rows)
                = CopiesOver({r \in BagToSet(InputTable.rows) :
                                 /\ r["driver_id"] = id
                                 /\ (r["f1"] > RunModel.threshold) <=> (p = 1)},
                             InputTable.rows)

(* C3, amended: in a successful run whose model writes its prediction to   *)
(* the column named prediction, the output holds, for every input row, one *)
(* row pairing that row's driver_id with the model's prediction for that   *)
(* row, and nothing else; the scenario input {1, 0.2}, {2, 0.9} with the   *)
(* model f1 > 0.5 gives exactly {1, 0}, {2, 1}.                            *)
C3_RowPairing ==
    (pc = "done" /\ RunModel.predictionCol = "prediction") =>
        /\ \A o \in BagToSet(fs[args.result].rows) :
              \E r \in BagToSet(InputTable.rows) :
                  /\ o["driver_id"] = r["driver_id"]
                  /\ o["prediction"] = (IF r["f1"] > RunModel.threshold THEN 1 ELSE 0)
        /\ \A id \in ColumnValues("driver_id"), p \in {0, 1} :
              CopiesIn([driver_id |-> id, prediction |-> p], fs[args.result].rows)
                = CopiesOver({r \in BagToSet(InputTable.rows) :
                                 /\ r["driver_id"] = id
                                 /\ (r["f1"] > RunModel.threshold) <=> (p = 1)},
                             InputTable.rows)
        /\ (InputTable = ScenarioInput) => fs[args.result].rows = ScenarioOutput

C3_Witness ==
    /\ pc = "done"
    /\ InputTable = ScenarioInput
    /\ args.model_uri = DefaultModelUri
    /\ fs[args.result].rows = ScenarioOutput

(* C4, as stated: when a run is repeated with the same paths and model,    *)
(* dataset readable and model resolvable, the first run has succeeded and  *)
(* the second fails at the write stage, leaving the output as it was.      *)
C4_AsStated ==
    (Terminal /\ prev.args = args /\ Readable /\ Resolvable) =>
        /\ prev.outcome = "done"
        /\ pc = "failed"
        /\ failedAt = "write"
        /\ fs = fs0

(* C4, amended: when a run that succeeded is repeated with the same paths  *)
(* and model, the second run fails at the write stage because the output   *)
(* path exists, and the output the first run created is neither            *)
(* overwritten nor altered.                                                *)
C4_NoOverwrite ==
    (Terminal /\ prev.args = args /\ prev.outcome = "done") =>
        /\ pc = "failed"
        /\ failedAt = "write"
        /\ error = "PathExists"
        /\ OutputWritten
        /\ fs[args.result] = fs0[args.result]
        /\ fs[args.result] = predictions

C4_Witness ==
    /\ pc = "failed"
    /\ failedAt = "write"
    /\ prev.args = args
    /\ prev.outcome = "done"
    /\ fs[args.result].rows # EmptyBag

(* C5: when the model URI cannot be resolved, the run fails, never enters  *)
(* the write stage, and storage is in every state of the run what it was   *)
(* at launch.                                                              *)
C5_NoOutputOnUnresolvable ==
    (Started /\ ~Resolvable) =>
        /\ pc # "done"
        /\ "write" \notin Range(trace)
        /\ fs = fs0
        /\ Terminal => (pc = "failed" /\ failedAt \in {"read", "load_model"})
        /\ (Terminal /\ Readable) => (failedAt = "load_model" /\ error = "ModelNotFound")

C5_Witness ==
    /\ pc = "failed"
    /\ error = "ModelNotFound"
    /\ OutputFresh
    /\ ~OutputWritten

(* C6: in every state of every run the registry and every path other than  *)
(* the output path hold what they held at launch, and the input dataset    *)
(* does too, even when the data path is the output path.                   *)
C6_InputsUntouched ==
    /\ registry = registry0
    /\ \A p \in Paths :
          p # args.result =>
              /\ (p \in DOMAIN fs) <=> (p \in DOMAIN fs0)
              /\ p \in DOMAIN fs0 => fs[p] = fs0[p]
    /\ (Started /\ args.data \in DOMAIN fs0) =>
          (args.data \in DOMAIN fs /\ fs[args.data] = fs0[args.data])
    /\ (Started /\ args.data \notin DOMAIN fs0) => args.data \notin DOMAIN fs

C6_Witness ==
    /\ Terminal
    /\ args.data = args.result
    /\ Readable
    /\ "write" \in Range(trace)

(* C7: the stages run in the order read, load_model, transform, write;     *)
(* each at most once; a stage is entered only when all earlier ones        *)
(* completed; a stage that failed is the last one entered.                 *)
C7_StageOrder ==
    /\ IsPrefix(trace, StageOrder)
    /\ pc \in Range(StageOrder) =>
          trace \o <<pc>> = SubSeq(StageOrder, 1, Len(trace) + 1)
    /\ pc = "done" => trace = StageOrder
    /\ pc = "failed" => (trace # <<>> /\ failedAt = trace[Len(trace)])
    /\ ~spark => trace = <<>>

C7_Witness ==
    /\ pc = "done"
    /\ trace = <<"read", "load_model", "transform", "write">>

(* C8: once line 10 has run, the three variables hold the script's values  *)
(* whatever the process inherited, and keep them: in particular whenever   *)
(* the Spark session exists or a stage has been entered.                   *)
C8_EnvSetFirst ==
    /\ pc \notin {"idle", "line8", "line9", "line10"} =>
          \A v \in EnvVars : env[v] = ModuleEnv[v]
    /\ (spark \/ trace # <<>> \/ Started) =>
          /\ env["MLFLOW_S3_ENDPOINT_URL"] = "https://url.net"
          /\ env["AWS_ACCESS_KEY_ID"] = "key-id"
          /\ env["AWS_SECRET_ACCESS_KEY"] = "access-key"

C8_Witness ==
    /\ overrode
    /\ spark
    /\ trace # <<>>
    /\ \A v \in EnvVars : env[v] = ModuleEnv[v]

(* C9: every failure is fatal: a run in which a failure condition holds    *)
(* ends failed at the first stage that meets one, no stage is entered      *)
(* after it, and the run is never in the success state.                    *)
C9_FailuresFatal ==
    /\ error # NoError => (pc = "failed" /\ trace # <<>> /\ failedAt = trace[Len(trace)])
    /\ pc = "failed" => error # NoError
    /\ pc = "done" => (error = NoError /\ Readable /\ Resolvable /\ SchemaOK /\ OutputFresh)
    /\ Terminal =>
          /\ ~Readable => (error = "PathNotFound" /\ failedAt = "read")
          /\ (Readable /\ ~Resolvable) => (error = "ModelNotFound" /\ failedAt = "load_model")
          /\ (Readable /\ Resolvable /\ ~SchemaOK) =>
                (error = "SchemaMismatch" /\ failedAt = "transform")
          /\ (SchemaOK /\ ~OutputFresh) => (error = "PathExists" /\ failedAt = "write")

C9_Witness ==
    /\ pc = "failed"
    /\ error = "SchemaMismatch"
    /\ "driver_id" \notin Range(data_df.cols)
    /\ trace = <<"read", "load_model", "transform">>

(* C10: an existing output path is noticed only by the write stage: with   *)
(* a readable dataset and a resolvable model the run reads the dataset and *)
(* loads the model before it fails.                                        *)
C10_LateOutputCheck ==
    /\ error = "PathExists" => (failedAt = "write" /\ trace = StageOrder)
    /\ (Terminal /\ ~OutputFresh /\ Readable /\ Resolvable) =>
          /\ pc = "failed"
          /\ IsPrefix(<<"read", "load_model">>, trace)
          /\ data_df = InputTable
          /\ model = RunModel
          /\ SchemaOK => (error = "PathExists" /\ failedAt = "write")

C10_Witness ==
    /\ pc = "failed"
    /\ error = "PathExists"
    /\ runs = 1
    /\ data_df = InputTable
    /\ model = RunModel

=============================================================================
